---- MODULE Spec2Model ----
(***************************************************************************)
(* Two-player Liar's Dice (ones wild): the information-set abstraction of  *)
(* liars_dice.py / mcts.py, the SO-MCTS engine of mcts.py, the rule-based  *)
(* agent of rule_based_agent.py, the CFR drivers of cfr.py and             *)
(* monte_cfr.py and the matchup harness of test_agents.py.                 *)
(*                                                                         *)
(* A bid is the pair <<quantity, face>>; Python's None (Challenge) is the  *)
(* pair <<0, 0>>, which no bid equals.  A roll is a 6-tuple of face counts.*)
(* Python lists are objects: the library part keeps them in a heap so that *)
(* aliasing (the mutable default argument of initial_info_set) is visible. *)
(***************************************************************************)
EXTENDS Integers, Sequences, FiniteSets, TLC

VARIABLES heap, info, call,
          mpc, root, node_memo, stack, determinization, traversals, result,
          cpc, cfr_root, time_limit, iterations, info_map, info_sets, cfr_result,
          cnode, ucall,
          match

libvars == <<heap, info, call>>

mctsvars == <<mpc, root, node_memo, stack, determinization, traversals, result>>

cfrvars == <<cpc, cfr_root, time_limit, iterations, info_map, info_sets, cfr_result>>

unitvars == <<cnode, ucall>>

matchvars == <<match>>

vars == <<libvars, mctsvars, cfrvars, unitvars, matchvars>>

----------------------------------------------------------------------------
(* Program constants and bounds *)

NUM_FACES == 6

MaxOwnDice == 2

MaxOppDice == 1

MaxHistLen == 2

MaxTotalDice == 2

MaxTraversals == 2

MaxIterations == 2

----------------------------------------------------------------------------
(* Values *)

None == <<0, 0>>

Max2(a, b) == IF a > b THEN a ELSE b

SumRoll(r) == r[1] + r[2] + r[3] + r[4] + r[5] + r[6]

\* every face-count vector of n dice
Rolls(n) == {r \in [1..NUM_FACES -> 0..n] : SumRoll(r) = n}

\* the bids a caller may pass for a game of `total` dice: legal quantities and one above the cap
AnyBids(total) == (1..(total + 1)) \X (2..NUM_FACES)

AnyMoves(total) == AnyBids(total) \cup {None}

SeqToSet(s) == {s[i] : i \in 1..Len(s)}

\* LiarsDiceIS.__init__: the five fields; bid_history is whatever the caller passed
LiarsDiceIS(p1n, p2n, roll, hist, turn) ==
  [player_one_num_dice |-> p1n, player_two_num_dice |-> p2n,
   player_one_roll |-> roll, bid_history |-> hist, player_one_turn |-> turn]

\* variant: the first element of the history is tested instead of the last
is_terminal_first(self) ==
  Len(self.bid_history) > 0 /\ self.bid_history[1] = None

\* variant: a Challenge anywhere in the history ends the game
is_terminal_anywhere(self) ==
  \E i \in 1..Len(self.bid_history) : self.bid_history[i] = None

is_terminal(self) ==
  Len(self.bid_history) > 0 /\ self.bid_history[Len(self.bid_history)] = None

\* variant: range(last_bid[1], NUM_FACES + 1), the last face itself included
same_quantity_raises_from_last(last_bid) ==
  [i \in 1..Max2(0, NUM_FACES + 1 - last_bid[2]) |-> <<last_bid[1], last_bid[2] + i - 1>>]

\* for face_value in range(last_bid[1] + 1, NUM_FACES + 1)
same_quantity_raises(last_bid) ==
  [i \in 1..Max2(0, NUM_FACES - last_bid[2]) |-> <<last_bid[1], last_bid[2] + i>>]

\* variant: for face_value in range(3, NUM_FACES + 1), face 2 skipped
higher_quantity_raises_from_three(last_bid, total) ==
  [k \in 1..(Max2(0, total - last_bid[1]) * (NUM_FACES - 2)) |->
     <<last_bid[1] + 1 + ((k - 1) \div (NUM_FACES - 2)), 3 + ((k - 1) % (NUM_FACES - 2))>>]

\* variant: range(last_bid[0] + 1, total + 2), one quantity past the cap
higher_quantity_raises_past_cap(last_bid, total) ==
  [k \in 1..(Max2(0, total + 1 - last_bid[1]) * (NUM_FACES - 1)) |->
     <<last_bid[1] + 1 + ((k - 1) \div (NUM_FACES - 1)), 2 + ((k - 1) % (NUM_FACES - 1))>>]

\* variant: range(last_bid[0] + 1, total), the cap itself left out
higher_quantity_raises_below_cap(last_bid, total) ==
  [k \in 1..(Max2(0, total - 1 - last_bid[1]) * (NUM_FACES - 1)) |->
     <<last_bid[1] + 1 + ((k - 1) \div (NUM_FACES - 1)), 2 + ((k - 1) % (NUM_FACES - 1))>>]

\* for quantity in range(last_bid[0] + 1, total + 1): for face_value in range(2, NUM_FACES + 1)
higher_quantity_raises(last_bid, total) ==
  [k \in 1..(Max2(0, total - last_bid[1]) * (NUM_FACES - 1)) |->
     <<last_bid[1] + 1 + ((k - 1) \div (NUM_FACES - 1)), 2 + ((k - 1) % (NUM_FACES - 1))>>]

possible_moves(self) ==
  IF is_terminal(self) THEN <<>>
  ELSE LET h == self.bid_history
           opening == IF Len(h) = 0 THEN << <<1, 2>> >> ELSE <<>>
           last_bid == IF Len(h) = 0 THEN <<1, 2>> ELSE h[Len(h)]
           total == self.player_one_num_dice + self.player_two_num_dice
           challenge == IF Len(h) > 0 THEN <<None>> ELSE <<>>
       IN opening \o same_quantity_raises(last_bid)
                  \o higher_quantity_raises(last_bid, total) \o challenge

\* __successor__ on values: history with the bid appended, turn flipped
successor(self, bid) ==
  LiarsDiceIS(self.player_one_num_dice, self.player_two_num_dice, self.player_one_roll,
              Append(self.bid_history, bid), ~self.player_one_turn)

\* variant: wild dice (face 1) are not counted
score_no_wilds(player_one_roll, player_two_roll, bid_history, player_one_last_bidder) ==
  IF Len(bid_history) = 0 \/ bid_history[Len(bid_history)] # None THEN 0
  ELSE LET last_bid == bid_history[Len(bid_history) - 1]
           num_faces == player_one_roll[last_bid[2]] + player_two_roll[last_bid[2]]
       IN IF player_one_last_bidder
          THEN (IF num_faces >= last_bid[1] THEN 1 ELSE -1)
          ELSE (IF num_faces >= last_bid[1] THEN -1 ELSE 1)

\* variant: only player one's dice are counted
score_own_dice_only(player_one_roll, player_two_roll, bid_history, player_one_last_bidder) ==
  IF Len(bid_history) = 0 \/ bid_history[Len(bid_history)] # None THEN 0
  ELSE LET last_bid == bid_history[Len(bid_history) - 1]
           num_faces == player_one_roll[last_bid[2]] + player_one_roll[1]
       IN IF player_one_last_bidder
          THEN (IF num_faces >= last_bid[1] THEN 1 ELSE -1)
          ELSE (IF num_faces >= last_bid[1] THEN -1 ELSE 1)

score(player_one_roll, player_two_roll, bid_history, player_one_last_bidder) ==
  IF Len(bid_history) = 0 \/ bid_history[Len(bid_history)] # None THEN 0
  ELSE LET last_bid == bid_history[Len(bid_history) - 1]
           num_faces == player_one_roll[last_bid[2]] + player_one_roll[1]
                        + player_two_roll[last_bid[2]] + player_two_roll[1]
       IN IF player_one_last_bidder
          THEN (IF num_faces >= last_bid[1] THEN 1 ELSE -1)
          ELSE (IF num_faces >= last_bid[1] THEN -1 ELSE 1)

----------------------------------------------------------------------------
(* Library calls on LiarsDiceIS objects.                                   *)
(* heap[0] is the list object bound once to the default argument           *)
(* bid_history=[] of initial_info_set; heap[1], heap[2] are list objects   *)
(* made by callers and by __successor__.  An object's bid_history field is *)
(* a reference into heap.                                                  *)

Refs == 0..2

Deref(obj) == [obj EXCEPT !.bid_history = heap[obj.bid_history]]

Total(obj) == obj.player_one_num_dice + obj.player_two_num_dice

\* histories a caller hands to initial_info_set as bid_history
RootHistories(total) == {<<>>} \cup {<<b>> : b \in AnyBids(total)}

\* bids only, then at most one trailing Challenge, and never a bare Challenge:
\* the histories on which score's last_bid = bid_history[-2] is a bid
ScoreDefined(h) ==
  /\ \A i \in 1..(Len(h) - 1) : h[i] # None
  /\ (Len(h) > 0 /\ h[Len(h)] = None) => Len(h) >= 2

\* initial_info_set: the object refers to the list it was given; when the
\* argument is omitted that list is the shared default
initial_info_set(p1n, p2n, roll, ref, turn) == LiarsDiceIS(p1n, p2n, roll, ref, turn)

\* self.bid_history.copy(): a list object distinct from self's and from the default
list_copy_alias(ref) == ref

list_copy(ref) == CHOOSE r \in Refs \ {0} : r # ref

\* list objects no live LiarsDiceIS refers to are garbage; the default list never is
Collect(h, objs) ==
  [r \in Refs |-> IF r = 0 \/ r \in {o.bid_history : o \in objs} THEN h[r] ELSE <<>>]

\* call records the most recent library call.  possible_moves and score are
\* queries: they leave info and heap as they were, so what can follow a query
\* is what can follow the position it was made in
AtPosition == call.op \in {"initial_info_set", "successor"}

\* a caller builds a fresh position for the same dice and roll, with the default
\* history or with a list of its own
NewInfoSet ==
  /\ call.op = "successor"
  /\ \E dflt \in BOOLEAN, h \in RootHistories(Total(info)) :
      /\ dflt => h = <<>>
      /\ LET new == initial_info_set(info.player_one_num_dice, info.player_two_num_dice,
                                     info.player_one_roll, IF dflt THEN 0 ELSE 1, TRUE)
         IN /\ heap' = Collect(IF dflt THEN heap ELSE [heap EXCEPT ![1] = h], {new})
            /\ info' = new
      /\ call' = [op |-> "initial_info_set", default |-> dflt]
      /\ UNCHANGED <<mctsvars, cfrvars, unitvars, matchvars>>

\* info.__successor__(m); the caller continues with the returned object
CallSuccessor(m) ==
  LET new_history == list_copy(info.bid_history)
      succ == successor(Deref(info), m)
      ret == [succ EXCEPT !.bid_history = new_history]
  IN /\ heap' = Collect([heap EXCEPT ![new_history] = succ.bid_history], {info, ret})
     /\ info' = ret
     /\ call' = [op |-> "successor", self |-> info, before |-> Deref(info),
                 move |-> m, ret |-> ret]
     /\ UNCHANGED <<mctsvars, cfrvars, unitvars, matchvars>>

SuccessorAny ==
  /\ AtPosition
  /\ Len(heap[info.bid_history]) < MaxHistLen
  /\ \E m \in AnyMoves(Total(info)) : CallSuccessor(m)

CallPossibleMoves ==
  /\ AtPosition
  /\ ScoreDefined(heap[info.bid_history])
  /\ call' = [op |-> "possible_moves", self |-> Deref(info),
              ret |-> possible_moves(Deref(info))]
  /\ heap' = Collect(heap, {info})
  /\ UNCHANGED <<info, mctsvars, cfrvars, unitvars, matchvars>>

CallScore ==
  /\ AtPosition
  /\ ScoreDefined(heap[info.bid_history])
  /\ \E opp \in Rolls(info.player_two_num_dice), bidder \in BOOLEAN :
       LET h == heap[info.bid_history] IN
       call' = [op |-> "score", own |-> info.player_one_roll, opp |-> opp,
                history |-> h, bidder |-> bidder,
                ret |-> score(info.player_one_roll, opp, h, bidder),
                swapped |-> score(opp, info.player_one_roll, h, ~bidder)]
  /\ heap' = Collect(heap, {info})
  /\ UNCHANGED <<info, mctsvars, cfrvars, unitvars, matchvars>>

----------------------------------------------------------------------------
(* The rule-based agent: rule_based_agent.py *)

RECURSIVE Pow(_, _)
Pow(b, e) == IF e = 0 THEN 1 ELSE b * Pow(b, e - 1)

RECURSIVE comb(_, _)
comb(n, k) == IF k = 0 \/ k = n THEN 1 ELSE comb(n - 1, k - 1) + comb(n - 1, k)

RECURSIVE SumFromTo(_, _, _)
\* the sum of f[i] for i = hi down to lo
SumFromTo(f, lo, hi) == IF hi < lo THEN 0 ELSE f[hi] + SumFromTo(f, lo, hi - 1)

\* prob_bid_is_good as the fraction num/den: wild dice are not counted among
\* the known dice; each unknown die matches with probability 1/3
prob_bid_is_good(info_set, bid, known_dice) ==
  LET num_opp_dice == info_set.player_two_num_dice
      remaining_dice_needed == bid[1] - known_dice[bid[2]]
  IN IF remaining_dice_needed <= 0 THEN [num |-> 1, den |-> 1]
     ELSE IF remaining_dice_needed > num_opp_dice THEN [num |-> 0, den |-> 1]
     ELSE [num |-> SumFromTo([i \in 0..num_opp_dice |->
                                comb(num_opp_dice, i) * Pow(2, num_opp_dice - i)],
                             remaining_dice_needed, num_opp_dice),
           den |-> Pow(3, num_opp_dice)]

true_moves(info_set) ==
  LET roll == info_set.player_one_roll
      Holds(move) == move # None /\ roll[1] + roll[move[2]] >= move[1]
  IN SelectSeq(possible_moves(info_set), Holds)

reasonable_moves(info_set, beta) ==
  LET h == info_set.bid_history
      prev_bid_count == IF Len(h) = 0 THEN 0 ELSE h[Len(h)][1]
      Reasonable(move) == move = None \/ move[1] <= prev_bid_count + beta
  IN SelectSeq(possible_moves(info_set), Reasonable)

RECURSIVE largest_from(_, _, _, _)
\* the loop of find_largest_bid from element i on; it breaks at None
largest_from(bids, i, highest, largest_bid) ==
  IF i > Len(bids) \/ bids[i] = None THEN largest_bid
  ELSE IF bids[i][1] = highest[1]
       THEN (IF bids[i][2] > highest[2]
             THEN largest_from(bids, i + 1, <<highest[1], bids[i][2]>>, bids[i])
             ELSE largest_from(bids, i + 1, highest, largest_bid))
  ELSE IF bids[i][1] > highest[1]
       THEN largest_from(bids, i + 1, bids[i], bids[i])
  ELSE largest_from(bids, i + 1, highest, largest_bid)

find_largest_bid(bids) == largest_from(bids, 1, <<0, 0>>, None)

\* list.remove(None) when None is in the list
RemoveNone(moves) == SelectSeq(moves, LAMBDA m : m # None)

RECURSIVE highest_known(_, _, _, _)
\* the loop of one_up over value = 2..6: <<highest_known_count, highest_known_value>>
highest_known(my_roll, prev_bid, value, best) ==
  IF value > Len(my_roll) THEN best
  ELSE LET total_EV == my_roll[value]
                       + (IF value = prev_bid[2] THEN prev_bid[1] \div 2 ELSE 0)
       IN IF total_EV > best[1]
          THEN highest_known(my_roll, prev_bid, value + 1, <<total_EV, value>>)
          ELSE highest_known(my_roll, prev_bid, value + 1, best)

\* variant: the raise is kept within the dice on the table, else Challenge
one_up_capped(info_set) ==
  LET h == info_set.bid_history
      prev_bid == IF Len(h) = 0 THEN <<0, 0>> ELSE h[Len(h)]
      best == highest_known(info_set.player_one_roll, prev_bid, 2, <<0, 0>>)
      bid == IF best[2] > prev_bid[2] THEN <<prev_bid[1], best[2]>>
             ELSE <<prev_bid[1] + 1, best[2]>>
  IN IF bid \in SeqToSet(possible_moves(info_set)) THEN bid ELSE None

one_up(info_set) ==
  LET h == info_set.bid_history
      prev_bid == IF Len(h) = 0 THEN <<0, 0>> ELSE h[Len(h)]
      best == highest_known(info_set.player_one_roll, prev_bid, 2, <<0, 0>>)
  IN IF best[2] > prev_bid[2] THEN <<prev_bid[1], best[2]>>
     ELSE <<prev_bid[1] + 1, best[2]>>

\* hyperparameters of find_heuristic_move: alpha = 0.01 as 1/AlphaInv, beta
AlphaInv == 100

Beta == 2

\* find_heuristic_move; bluff is r < epsilon
find_heuristic_move(info_set, bluff) ==
  LET h == info_set.bid_history
      has_prev == Len(h) > 0
      prob == IF has_prev
              THEN prob_bid_is_good(info_set, h[Len(h)], info_set.player_one_roll)
              ELSE [num |-> 0, den |-> 1]
      moves0 == possible_moves(info_set)
      certain == has_prev /\ prob.num = prob.den
      reasonables == IF certain THEN RemoveNone(reasonable_moves(info_set, Beta))
                     ELSE reasonable_moves(info_set, Beta)
      trues == true_moves(info_set)
      moves == IF Len(reasonables) > 0 THEN reasonables ELSE moves0
  IN IF has_prev /\ prob.num * AlphaInv <= prob.den THEN None
     ELSE IF Len(moves) = 1 THEN moves[1]
     ELSE IF bluff THEN find_largest_bid(moves)
     ELSE IF Len(trues) > 0 THEN find_largest_bid(trues)
     ELSE one_up(info_set)

\* the harness asks the agent for a move in a position that is not terminal
CallHeuristic ==
  /\ AtPosition
  /\ \A i \in 1..Len(heap[info.bid_history]) : heap[info.bid_history][i] # None
  /\ \E bluff \in BOOLEAN :
       call' = [op |-> "find_heuristic_move", self |-> Deref(info), bluff |-> bluff,
                ret |-> find_heuristic_move(Deref(info), bluff)]
  /\ heap' = Collect(heap, {info})
  /\ UNCHANGED <<info, mctsvars, cfrvars, unitvars, matchvars>>

\* no mcts call is in progress
MctsIdle ==
  /\ mpc = "idle"
  /\ root = LiarsDiceIS(0, 0, <<0, 0, 0, 0, 0, 0>>, <<>>, TRUE)
  /\ node_memo = <<>>
  /\ stack = <<>>
  /\ determinization = <<0, 0, 0, 0, 0, 0>>
  /\ traversals = 0
  /\ result = None

\* no matchup is being run
MatchIdle == match = [pc |-> "idle"]

\* no CFRNode is under test and no function was called
UnitIdle ==
  /\ cnode = [moves |-> <<>>]
  /\ ucall = [op |-> "idle"]

\* no get_cfr call is in progress
CfrIdle ==
  /\ cpc = "idle"
  /\ cfr_root = LiarsDiceIS(0, 0, <<0, 0, 0, 0, 0, 0>>, <<>>, TRUE)
  /\ time_limit = 0
  /\ iterations = 0
  /\ info_map = <<>>
  /\ info_sets = <<>>
  /\ cfr_result = [kind |-> "none"]

\* no library call was made: the default list is empty, no object is held
LibIdle ==
  /\ heap = [r \in Refs |-> <<>>]
  /\ info = LiarsDiceIS(0, 0, <<0, 0, 0, 0, 0, 0>>, 0, TRUE)
  /\ call = [op |-> "idle"]

InitLib ==
  /\ MatchIdle
  /\ heap = [r \in Refs |-> <<>>]
  /\ \E p1n \in 1..MaxOwnDice, p2n \in 1..MaxOppDice :
       \E roll \in Rolls(p1n) : info = initial_info_set(p1n, p2n, roll, 0, TRUE)
  /\ call = [op |-> "initial_info_set", default |-> TRUE]
  /\ MctsIdle
  /\ CfrIdle
  /\ UnitIdle

NextLib ==
  \/ NewInfoSet
  \/ SuccessorAny
  \/ CallPossibleMoves
  \/ CallScore
  \/ CallHeuristic

SpecLib == InitLib /\ [][NextLib]_vars

----------------------------------------------------------------------------
(* Play: positions reached from an empty history by moves taken from       *)
(* possibleMoves (random_play, simulate_game with policies that return     *)
(* legal moves).                                                           *)

PlayMove ==
  \E i \in 1..Len(possible_moves(Deref(info))) :
    CallSuccessor(possible_moves(Deref(info))[i])

NextPlay == PlayMove

InitPlay ==
  /\ MatchIdle
  /\ heap = [r \in Refs |-> <<>>]
  /\ \E p1n \in 1..MaxOwnDice, p2n \in 1..MaxOppDice :
       /\ p1n + p2n <= MaxTotalDice
       /\ \E roll \in Rolls(p1n) : info = initial_info_set(p1n, p2n, roll, 0, TRUE)
  /\ call = [op |-> "initial_info_set", default |-> TRUE]
  /\ MctsIdle
  /\ CfrIdle
  /\ UnitIdle

SpecPlay == InitPlay /\ [][NextPlay]_vars

\* the loops of random_play and simulate_game: while the position is not
\* terminal the loop body runs again
SpecPlayFair == SpecPlay /\ WF_vars(NextPlay)

----------------------------------------------------------------------------
(* SO-MCTS: mcts.py.  One mcts(info_set, time_limit) call.  node_memo maps  *)
(* a bid history (the key LiarsDiceIS.__eq__/__hash__ compare) to its       *)
(* ISNode; an Edge's child is the node stored under the successor history.  *)
(* The recursion of traverse is the stack of the histories being visited;   *)
(* the statistics of the frames are updated when the recursion returns.     *)

EPSILON_INV == 5

NoRoll == <<0, 0, 0, 0, 0, 0>>

\* floor(10^6 * sqrt(2*ln(T)/n)) for T, n in 1..6: the exploration term of Edge.ucb
UcbScale == 1000000

UcbBonus ==
  << <<0, 0, 0, 0, 0, 0>>,
     <<1177410, 832554, 679777, 588705, 526553, 480675>>,
     <<1482303, 1048147, 855808, 741151, 662906, 605147>>,
     <<1665109, 1177410, 961351, 832554, 744659, 679777>>,
     <<1794122, 1268636, 1035837, 897061, 802356, 732447>>,
     <<1893018, 1338566, 1092934, 946509, 846583, 772821>> >>

\* floats as they are compared: +inf, -inf or the fraction num/den (den > 0)
PlusInf == [inf |-> 1, num |-> 0, den |-> 1]

MinusInf == [inf |-> -1, num |-> 0, den |-> 1]

Frac(num, den) == [inf |-> 0, num |-> num, den |-> den]

\* a > b
Gt(a, b) ==
  IF a.inf # b.inf THEN a.inf > b.inf
  ELSE a.inf = 0 /\ a.num * b.den > b.num * a.den

\* variant: the last index holding a maximal element (value >= max_value)
argmax_last(iterable) ==
  CHOOSE i \in 1..Len(iterable) :
    /\ \A j \in 1..Len(iterable) : ~Gt(iterable[j], iterable[i])
    /\ \A j \in (i + 1)..Len(iterable) : Gt(iterable[i], iterable[j])

\* the first index holding a maximal element
argmax(iterable) ==
  CHOOSE i \in 1..Len(iterable) :
    /\ \A j \in 1..Len(iterable) : ~Gt(iterable[j], iterable[i])
    /\ \A j \in 1..(i - 1) : Gt(iterable[i], iterable[j])

ISNode(info_set) ==
  [info_set |-> info_set, edges |-> <<>>, edges_none |-> TRUE,
   visit_count |-> 0, total_reward |-> 0]

\* an edge holds its action, its child (by key) and its selection count n
Edge(action, child) == [action |-> action, child |-> child, n |-> 0]

\* variant: child = ISNode(self.info_set), the node's own information set
expand_memo_parent_info(node, memo) ==
  LET moves == possible_moves(node.info_set)
      keys == {Append(node.info_set.bid_history, moves[i]) : i \in 1..Len(moves)}
  IN [k \in DOMAIN memo \cup keys |->
        IF k \in DOMAIN memo THEN memo[k]
        ELSE ISNode(node.info_set)]

\* ISNode.expand: the memo after the children are looked up or created
expand_memo(node, memo) ==
  LET moves == possible_moves(node.info_set)
      keys == {Append(node.info_set.bid_history, moves[i]) : i \in 1..Len(moves)}
  IN [k \in DOMAIN memo \cup keys |->
        IF k \in DOMAIN memo THEN memo[k]
        ELSE ISNode(successor(node.info_set, k[Len(k)]))]

\* ISNode.expand: the edges, one per possible move, in order
expand_edges(node) ==
  LET moves == possible_moves(node.info_set)
  IN [i \in 1..Len(moves) |->
        Edge(moves[i], Append(node.info_set.bid_history, moves[i]))]

is_expanded(node) == ~node.info_set.player_one_turn \/ ~node.edges_none

\* Edge.ucb(T, 1)
ucb(e, child, T) ==
  IF e.n = 0 \/ child.visit_count = 0 THEN PlusInf
  ELSE Frac(child.total_reward * UcbScale + UcbBonus[T][e.n] * child.visit_count,
            child.visit_count)

\* ISNode.ucb_choice on an expanded node: the edge indexes it may return
ucb_choice(node, memo) ==
  IF node.visit_count = 0 THEN 1..Len(node.edges)
  ELSE {argmax([i \in 1..Len(node.edges) |->
                  ucb(node.edges[i], memo[node.edges[i].child], node.visit_count)])}

RECURSIVE bayesian_weight(_, _, _)
\* the weight of one candidate roll before normalisation
bayesian_weight(roll, bid_history, current_turn_p1) ==
  IF bid_history = <<>> THEN 1
  ELSE LET bid == Head(bid_history)
           boost == IF ~current_turn_p1 /\ roll[bid[2]] + roll[1] >= bid[1]
                    THEN EPSILON_INV ELSE 1
       IN boost * bayesian_weight(roll, Tail(bid_history), ~current_turn_p1)

\* the rolls random.choices can draw: those of positive weight
Determinizations(info_set) ==
  {r \in Rolls(info_set.player_two_num_dice) :
     bayesian_weight(r, info_set.bid_history, Len(info_set.bid_history) % 2 = 0) > 0}

\* variant: the wild dice roll[0] are not counted
epsilon_conservative_no_wilds(roll, moves, explore) ==
  IF explore
  THEN (IF Len(moves) = 1 THEN {moves[1]} ELSE SeqToSet(moves))
  ELSE LET Viable(move) == move # None /\ roll[move[2]] >= move[1]
           viable_moves == SelectSeq(moves, Viable)
       IN IF Len(viable_moves) > 0 THEN SeqToSet(viable_moves) ELSE {None}

\* the moves epsilon_conservative can return; explore is r < epsilon
epsilon_conservative(roll, moves, explore) ==
  IF explore
  THEN (IF Len(moves) = 1 THEN {moves[1]} ELSE SeqToSet(moves))
  ELSE LET Viable(move) == move # None /\ roll[1] + roll[move[2]] >= move[1]
           viable_moves == SelectSeq(moves, Viable)
       IN IF Len(viable_moves) > 0 THEN SeqToSet(viable_moves) ELSE {None}

\* random_play: the playout position current_is is dropped; the value returned
\* is the score of the position the playout started from
random_play(info_set, det) ==
  score(info_set.player_one_roll, det, info_set.bid_history, info_set.player_one_turn)

\* variant: only the last frame, the node the traversal ended at, is updated
Backpropagate_leaf_only(memo, frames, reward) ==
  [k \in DOMAIN memo |->
     IF k = frames[Len(frames)]
     THEN [memo[k] EXCEPT !.visit_count = @ + 1, !.total_reward = @ + reward]
     ELSE memo[k]]

\* the returns of the recursion: every frame adds the reward and one visit
Backpropagate(memo, frames, reward) ==
  [k \in DOMAIN memo |->
     IF k \in SeqToSet(frames)
     THEN [memo[k] EXCEPT !.visit_count = @ + 1, !.total_reward = @ + reward]
     ELSE memo[k]]

\* the positions mcts is called with: the mover is player one
MctsRoots(p1n, p2n) ==
  LET bids == (1..(p1n + p2n)) \X (2..NUM_FACES)
  IN {<<>>} \cup {<<b>> : b \in bids} \cup {<<b, None>> : b \in bids}

InitMcts ==
  /\ MatchIdle
  /\ LibIdle
  /\ CfrIdle
  /\ UnitIdle
  /\ mpc = "start"
  /\ \E p1n \in 1..MaxOwnDice, p2n \in 1..MaxOppDice :
       /\ p1n + p2n <= MaxTotalDice
       /\ \E roll \in Rolls(p1n), h \in MctsRoots(p1n, p2n) :
            root = LiarsDiceIS(p1n, p2n, roll, h, TRUE)
  /\ node_memo = <<>>
  /\ stack = <<>>
  /\ determinization = NoRoll
  /\ traversals = 0
  /\ result = None

\* raise ValueError("MCTS root state must be non-terminal.")
MctsRaise ==
  /\ mpc = "start"
  /\ is_terminal(root)
  /\ mpc' = "raised"
  /\ UNCHANGED <<root, node_memo, stack, determinization, traversals, result, libvars, cfrvars, unitvars, matchvars>>

\* root = ISNode(info_set); node_memo = {info_set: root}
MctsBegin ==
  /\ mpc = "start"
  /\ ~is_terminal(root)
  /\ node_memo' = (root.bid_history :> ISNode(root))
  /\ mpc' = "loop"
  /\ UNCHANGED <<root, stack, determinization, traversals, result, libvars, cfrvars, unitvars, matchvars>>

\* the time budget has not run out: sample a determinization, traverse(root, ...)
MctsSample ==
  /\ mpc = "loop"
  /\ traversals < MaxTraversals
  /\ \E det \in Determinizations(root) : determinization' = det
  /\ stack' = <<root.bid_history>>
  /\ mpc' = "traverse"
  /\ UNCHANGED <<root, node_memo, traversals, result, libvars, cfrvars, unitvars, matchvars>>

Top == node_memo[stack[Len(stack)]]

FinishTraversal(memo) ==
  /\ node_memo' = memo
  /\ stack' = <<>>
  /\ determinization' = NoRoll
  /\ traversals' = traversals + 1
  /\ mpc' = "loop"
  /\ UNCHANGED <<root, result, libvars, cfrvars, unitvars, matchvars>>

\* traverse, base case: the node is terminal
TraverseTerminal ==
  /\ mpc = "traverse"
  /\ is_terminal(Top.info_set)
  /\ LET reward == score(Top.info_set.player_one_roll, determinization,
                         Top.info_set.bid_history, Top.info_set.player_one_turn)
     IN FinishTraversal(Backpropagate(node_memo, stack, reward))

\* traverse, player two to move: epsilon_conservative picks the action
TraverseOpponent ==
  /\ mpc = "traverse"
  /\ ~is_terminal(Top.info_set)
  /\ ~Top.info_set.player_one_turn
  /\ \E explore \in BOOLEAN :
       \E action \in epsilon_conservative(determinization,
                                          possible_moves(Top.info_set), explore) :
         LET next_info_set == successor(Top.info_set, action)
             key == next_info_set.bid_history
         IN /\ node_memo' = IF key \in DOMAIN node_memo THEN node_memo
                            ELSE (key :> ISNode(next_info_set)) @@ node_memo
            /\ stack' = Append(stack, key)
  /\ UNCHANGED <<mpc, root, determinization, traversals, result, libvars, cfrvars, unitvars, matchvars>>

\* traverse, player one to move at an expanded node: UCB
TraverseUcb ==
  /\ mpc = "traverse"
  /\ ~is_terminal(Top.info_set)
  /\ Top.info_set.player_one_turn
  /\ is_expanded(Top)
  /\ \E i \in ucb_choice(Top, node_memo) :
       /\ node_memo' = [node_memo EXCEPT ![stack[Len(stack)]].edges[i].n = @ + 1]
       /\ stack' = Append(stack, Top.edges[i].child)
  /\ UNCHANGED <<mpc, root, determinization, traversals, result, libvars, cfrvars, unitvars, matchvars>>

\* traverse, base case 2: expand, pick a random edge, play out, propagate
TraverseExpand ==
  /\ mpc = "traverse"
  /\ ~is_terminal(Top.info_set)
  /\ Top.info_set.player_one_turn
  /\ ~is_expanded(Top)
  /\ LET key == stack[Len(stack)]
         expanded == [expand_memo(Top, node_memo) EXCEPT
                        ![key].edges = expand_edges(Top), ![key].edges_none = FALSE]
     IN \E i \in 1..Len(expanded[key].edges) :
          LET child == expanded[key].edges[i].child
              reward == random_play(expanded[child].info_set, determinization)
              selected == [expanded EXCEPT ![key].edges[i].n = @ + 1]
          IN FinishTraversal(Backpropagate(selected, Append(stack, child), reward))

\* variant: Challenge is always among the moves drawn from
fallback_moves_with_challenge(info_set) == Append(possible_moves(info_set), None)

\* the list random.choice draws from when the root was never expanded
fallback_moves(info_set) == possible_moves(info_set)

\* variant: a child with no visit counts as average 0 instead of -inf
best_action_unvisited_zero(r, memo) ==
  r.edges[argmax([i \in 1..Len(r.edges) |->
            LET c == memo[r.edges[i].child]
            IN IF c.visit_count > 0 THEN Frac(c.total_reward, c.visit_count)
               ELSE Frac(0, 1)])].action

\* the action of the root edge whose child has the highest average reward
best_action(r, memo) ==
  r.edges[argmax([i \in 1..Len(r.edges) |->
            LET c == memo[r.edges[i].child]
            IN IF c.visit_count > 0 THEN Frac(c.total_reward, c.visit_count)
               ELSE MinusInf])].action

\* the time budget has run out: the move mcts returns
MctsReturn ==
  /\ mpc = "loop"
  /\ LET r == node_memo[root.bid_history]
     IN IF ~is_expanded(r)
        THEN \E i \in 1..Len(fallback_moves(r.info_set)) :
               result' = fallback_moves(r.info_set)[i]
        ELSE result' = best_action(r, node_memo)
  /\ mpc' = "returned"
  /\ UNCHANGED <<root, node_memo, stack, determinization, traversals, libvars, cfrvars, unitvars, matchvars>>

NextMcts ==
  \/ MctsRaise
  \/ MctsBegin
  \/ MctsSample
  \/ TraverseTerminal
  \/ TraverseOpponent
  \/ TraverseUcb
  \/ TraverseExpand
  \/ MctsReturn

\* a longer search on roots with few moves, so that every edge of a node is
\* selected and finite UCB values are compared
MaxDeepTraversals == 6

MaxRootMoves == 4

InitMctsDeep ==
  /\ MatchIdle
  /\ LibIdle
  /\ CfrIdle
  /\ UnitIdle
  /\ mpc = "start"
  /\ \E p1n \in 1..MaxOwnDice, p2n \in 1..MaxOppDice :
       /\ p1n + p2n <= MaxTotalDice
       /\ \E roll \in Rolls(p1n), h \in MctsRoots(p1n, p2n) :
            /\ Len(possible_moves(LiarsDiceIS(p1n, p2n, roll, h, TRUE))) <= MaxRootMoves
            /\ root = LiarsDiceIS(p1n, p2n, roll, h, TRUE)
  /\ node_memo = <<>>
  /\ stack = <<>>
  /\ determinization = NoRoll
  /\ traversals = 0
  /\ result = None

\* the time budget has not run out: sample a determinization, traverse(root, ...)
MctsSampleDeep ==
  /\ mpc = "loop"
  /\ traversals < MaxDeepTraversals
  /\ \E det \in Determinizations(root) : determinization' = det
  /\ stack' = <<root.bid_history>>
  /\ mpc' = "traverse"
  /\ UNCHANGED <<root, node_memo, traversals, result, libvars, cfrvars, unitvars, matchvars>>

NextMctsDeep ==
  \/ MctsRaise
  \/ MctsBegin
  \/ MctsSampleDeep
  \/ TraverseTerminal
  \/ TraverseOpponent
  \/ TraverseUcb
  \/ TraverseExpand
  \/ MctsReturn

SpecMctsDeep == InitMctsDeep /\ [][NextMctsDeep]_vars

SpecMcts == InitMcts /\ [][NextMcts]_vars

----------------------------------------------------------------------------
(* Exact CFR: cfr.py.  One get_cfr(info_set, time_limit) call.  time_limit *)
(* is the number of passes of the while loop the wall clock allows.        *)
(* info_sets is the argument of the cfr() frame being run; a roll of None  *)
(* is NoRoll.  info_map maps a key to its CFRNode.                         *)

\* LiarsDiceIS.__is_chance__
is_chance(self) == self.player_one_roll = NoRoll

\* the first key of generate_dice_outcomes(n): product(range(1, 7), repeat=n)
\* starts with n ones
first_dice_outcome(n) == <<n, 0, 0, 0, 0, 0>>

\* str(roll) + " " + str(bid_history[-1:])
info_key(self) ==
  LET h == self.bid_history
  IN <<self.player_one_roll, IF Len(h) = 0 THEN <<>> ELSE <<h[Len(h)]>> >>

\* CFRNode.get_average_strat followed by get_move_from_strat: the moves the
\* sample can be, those whose average probability is not cut to 0
average_strat_support(node) ==
  LET total == SumFromTo(node.total_prob, 1, Len(node.moves))
  IN IF total > 0
     THEN {node.moves[i] : i \in {j \in 1..Len(node.moves) :
                                    1000 * node.total_prob[j] >= total}}
     ELSE SeqToSet(node.moves)

\* the roots get_cfr is called with
CfrRoots(p1n, p2n) ==
  LET bids == (1..(p1n + p2n)) \X (2..NUM_FACES)
  IN {<<>>} \cup {<<b>> : b \in bids} \cup {<<b, None>> : b \in bids}

InitCfr ==
  /\ MatchIdle
  /\ LibIdle
  /\ MctsIdle
  /\ UnitIdle
  /\ cpc = "start"
  /\ \E p1n \in 1..MaxOwnDice, p2n \in 1..MaxOppDice :
       \E roll \in Rolls(p1n), h \in CfrRoots(p1n, p2n), turn \in BOOLEAN :
         cfr_root = LiarsDiceIS(p1n, p2n, roll, h, turn)
  /\ time_limit \in 0..MaxIterations
  /\ iterations = 0
  /\ info_map = <<>>
  /\ info_sets = <<>>
  /\ cfr_result = [kind |-> "none"]

\* iterations = 0; info_map = {}
GetCfrBegin ==
  /\ cpc = "start"
  /\ cpc' = "loop"
  /\ iterations' = 0
  /\ info_map' = <<>>
  /\ UNCHANGED <<cfr_root, time_limit, info_sets, cfr_result, libvars, mctsvars, unitvars, matchvars>>

\* a pass of the while loop: the two information sets, then cfr(info_map,
\* info_sets, [1,1,1])
GetCfrIterate ==
  /\ cpc = "loop"
  /\ iterations < time_limit
  /\ info_sets' = << cfr_root,
                     LiarsDiceIS(cfr_root.player_two_num_dice,
                                 cfr_root.player_one_num_dice,
                                 NoRoll,
                                 cfr_root.bid_history,
                                 ~cfr_root.player_one_turn) >>
  /\ cpc' = "cfr"
  /\ UNCHANGED <<cfr_root, time_limit, iterations, info_map, cfr_result,
                 libvars, mctsvars, unitvars, matchvars>>

\* cfr at a terminal pair: liars_dice.score on the two rolls; a roll that is
\* still None cannot be subscripted.  The score is the
\* value of the frame; at the root frame the pass of the loop is over
CfrTerminal ==
  /\ cpc = "cfr"
  /\ is_terminal(info_sets[1]) \/ is_terminal(info_sets[2])
  /\ LET curr_player == IF info_sets[1].player_one_turn THEN 1 ELSE 2
         other == 3 - curr_player
     IN IF is_chance(info_sets[curr_player]) \/ is_chance(info_sets[other])
        THEN /\ cpc' = "raised"
             /\ cfr_result' = [kind |-> "TypeError", at |-> "score"]
             /\ UNCHANGED iterations
        ELSE /\ cpc' = "loop"
             /\ iterations' = iterations + 1
             /\ cfr_result' =
                  [kind |-> "value",
                   value |-> score(info_sets[curr_player].player_one_roll,
                                   info_sets[other].player_one_roll,
                                   info_sets[curr_player].bid_history,
                                   info_sets[curr_player].player_one_turn)]
  /\ UNCHANGED <<cfr_root, time_limit, info_map, info_sets, libvars, mctsvars, unitvars, matchvars>>

\* cfr at a chance node: the first outcome is assigned to a copy of the
\* roll-less information set and cfr recurses on it
CfrChance ==
  /\ cpc = "cfr"
  /\ ~(is_terminal(info_sets[1]) \/ is_terminal(info_sets[2]))
  /\ is_chance(info_sets[1]) \/ is_chance(info_sets[2])
  /\ LET other_player == IF is_chance(info_sets[1]) THEN 1 ELSE 2
     IN info_sets' =
          [info_sets EXCEPT ![other_player].player_one_roll =
             first_dice_outcome(info_sets[other_player].player_one_num_dice)]
  /\ UNCHANGED <<cpc, cfr_root, time_limit, iterations, info_map, cfr_result,
                 libvars, mctsvars, unitvars, matchvars>>

\* cfr at a decision node: info_sets[curr_player].__possible_moves__(True)
\* passes an argument to a method that takes none, which raises TypeError
\* before a CFRNode is created
CfrDecision ==
  /\ cpc = "cfr"
  /\ ~(is_terminal(info_sets[1]) \/ is_terminal(info_sets[2]))
  /\ ~(is_chance(info_sets[1]) \/ is_chance(info_sets[2]))
  /\ cpc' = "raised"
  /\ cfr_result' = [kind |-> "TypeError", at |-> "__possible_moves__"]
  /\ UNCHANGED <<cfr_root, time_limit, iterations, info_map, info_sets,
                 libvars, mctsvars, unitvars, matchvars>>

\* after the loop: my_node = info_map[info_key] (KeyError when absent), then
\* a move sampled from the average strategy
GetCfrLookup ==
  /\ cpc = "loop"
  /\ ~(iterations < time_limit)
  /\ IF info_key(cfr_root) \in DOMAIN info_map
     THEN /\ cpc' = "returned"
          /\ \E m \in average_strat_support(info_map[info_key(cfr_root)]) :
               cfr_result' = [kind |-> "move", move |-> m]
     ELSE /\ cpc' = "raised"
          /\ cfr_result' = [kind |-> "KeyError", at |-> "info_map"]
  /\ UNCHANGED <<cfr_root, time_limit, iterations, info_map, info_sets,
                 libvars, mctsvars, unitvars, matchvars>>

NextCfr ==
  \/ GetCfrBegin
  \/ GetCfrIterate
  \/ CfrTerminal
  \/ CfrChance
  \/ CfrDecision
  \/ GetCfrLookup

SpecCfr == InitCfr /\ [][NextCfr]_vars

----------------------------------------------------------------------------
(* Monte-Carlo CFR: monte_cfr.py.  One get_monte_cfr(info_set, time_limit)  *)
(* call, on the variables of the exact variant: info_sets is the argument   *)
(* of the monte_cfr() frame being run.                                      *)

\* the keys of generate_dice_outcomes(n), every one of probability > 0
dice_outcomes(n) == Rolls(n)

\* iterations = 0; info_map = {}
GetMonteCfrBegin ==
  /\ cpc = "start"
  /\ cpc' = "loop"
  /\ iterations' = 0
  /\ info_map' = <<>>
  /\ UNCHANGED <<cfr_root, time_limit, info_sets, cfr_result, libvars, mctsvars, unitvars, matchvars>>

\* a pass of the while loop: the two information sets, then
\* monte_cfr(info_map, info_sets, [1,1,1])
GetMonteCfrIterate ==
  /\ cpc = "loop"
  /\ iterations < time_limit
  /\ info_sets' = << cfr_root,
                     LiarsDiceIS(cfr_root.player_two_num_dice,
                                 cfr_root.player_one_num_dice,
                                 NoRoll,
                                 cfr_root.bid_history,
                                 ~cfr_root.player_one_turn) >>
  /\ cpc' = "monte_cfr"
  /\ UNCHANGED <<cfr_root, time_limit, iterations, info_map, cfr_result,
                 libvars, mctsvars, unitvars, matchvars>>

\* monte_cfr at a terminal pair: liars_dice.score on the two rolls; a roll
\* that is still None cannot be subscripted.  The score is the
\* value of the frame; at the root frame the pass of the loop is over
MonteCfrTerminal ==
  /\ cpc = "monte_cfr"
  /\ is_terminal(info_sets[1]) \/ is_terminal(info_sets[2])
  /\ LET curr_player == IF info_sets[1].player_one_turn THEN 1 ELSE 2
         other == 3 - curr_player
     IN IF is_chance(info_sets[curr_player]) \/ is_chance(info_sets[other])
        THEN /\ cpc' = "raised"
             /\ cfr_result' = [kind |-> "TypeError", at |-> "score"]
             /\ UNCHANGED iterations
        ELSE /\ cpc' = "loop"
             /\ iterations' = iterations + 1
             /\ cfr_result' =
                  [kind |-> "value",
                   value |-> score(info_sets[curr_player].player_one_roll,
                                   info_sets[other].player_one_roll,
                                   info_sets[curr_player].bid_history,
                                   info_sets[curr_player].player_one_turn)]
  /\ UNCHANGED <<cfr_root, time_limit, info_map, info_sets, libvars, mctsvars, unitvars, matchvars>>

\* monte_cfr at a chance node: one outcome, sampled by its probability, is
\* assigned to the roll-less information set and monte_cfr recurses on it
MonteCfrChance ==
  /\ cpc = "monte_cfr"
  /\ ~(is_terminal(info_sets[1]) \/ is_terminal(info_sets[2]))
  /\ is_chance(info_sets[1]) \/ is_chance(info_sets[2])
  /\ LET other_player == IF is_chance(info_sets[1]) THEN 1 ELSE 2
     IN \E outcome_other \in dice_outcomes(info_sets[other_player].player_one_num_dice) :
          info_sets' = [info_sets EXCEPT ![other_player].player_one_roll = outcome_other]
  /\ UNCHANGED <<cpc, cfr_root, time_limit, iterations, info_map, cfr_result,
                 libvars, mctsvars, unitvars, matchvars>>

\* monte_cfr at a decision node, of the querying player or of the opponent:
\* info_sets[curr_player].__possible_moves__(True) passes an argument to a
\* method that takes none, which raises TypeError before a CFRNode is
\* created, a strategy is computed or a move is sampled
MonteCfrDecision ==
  /\ cpc = "monte_cfr"
  /\ ~(is_terminal(info_sets[1]) \/ is_terminal(info_sets[2]))
  /\ ~(is_chance(info_sets[1]) \/ is_chance(info_sets[2]))
  /\ cpc' = "raised"
  /\ cfr_result' = [kind |-> "TypeError", at |-> "__possible_moves__"]
  /\ UNCHANGED <<cfr_root, time_limit, iterations, info_map, info_sets,
                 libvars, mctsvars, unitvars, matchvars>>

\* after the loop: my_node = info_map[info_key] (KeyError when absent), then
\* a move sampled from the average strategy
GetMonteCfrLookup ==
  /\ cpc = "loop"
  /\ ~(iterations < time_limit)
  /\ IF info_key(cfr_root) \in DOMAIN info_map
     THEN /\ cpc' = "returned"
          /\ \E m \in average_strat_support(info_map[info_key(cfr_root)]) :
               cfr_result' = [kind |-> "move", move |-> m]
     ELSE /\ cpc' = "raised"
          /\ cfr_result' = [kind |-> "KeyError", at |-> "info_map"]
  /\ UNCHANGED <<cfr_root, time_limit, iterations, info_map, info_sets,
                 libvars, mctsvars, unitvars, matchvars>>

NextMonteCfr ==
  \/ GetMonteCfrBegin
  \/ GetMonteCfrIterate
  \/ MonteCfrTerminal
  \/ MonteCfrChance
  \/ MonteCfrDecision
  \/ GetMonteCfrLookup

SpecMonteCfr == InitCfr /\ [][NextMonteCfr]_vars

----------------------------------------------------------------------------

(* CFRNode: cfr.py.  One table entry.  The dictionaries total_regret,       *)
(* strategy and total_prob are keyed by the moves, so they are sequences    *)
(* parallel to moves.  Probabilities are exact fractions n/d in lowest      *)
(* terms; regrets are whole multiples of one unit.                          *)

MaxNodeMoves == 3

MaxRegret == 2

MaxStratCalls == 1

RECURSIVE GCD(_, _)
GCD(a, b) == IF b = 0 THEN a ELSE GCD(b, a % b)

Abs(x) == IF x < 0 THEN -x ELSE x

\* the fraction n/d (d # 0) in lowest terms with a positive denominator
Q(n, d) ==
  LET g == GCD(Abs(n), Abs(d))
      sgn == IF d < 0 THEN -1 ELSE 1
  IN [n |-> sgn * (n \div g), d |-> sgn * (d \div g)]

QAdd(a, b) == Q(a.n * b.d + b.n * a.d, a.d * b.d)

QMul(a, b) == Q(a.n * b.n, a.d * b.d)

QLess(a, b) == a.n * b.d < b.n * a.d

RECURSIVE QSum(_, _)
\* the sum of the first k elements of a sequence of fractions
QSum(seq, k) == IF k = 0 THEN Q(0, 1) ELSE QAdd(QSum(seq, k - 1), seq[k])

\* CFRNode.__init__
CFRNode(moves) ==
  [moves |-> moves,
   total_regret |-> [i \in 1..Len(moves) |-> 0],
   strategy |-> [i \in 1..Len(moves) |-> Q(0, 1)],
   total_prob |-> [i \in 1..Len(moves) |-> Q(0, 1)]]

\* variant: the regrets are divided by their positive sum without max(0, .)
get_curr_strat_no_clip(node, probability) ==
  LET n == Len(node.moves)
      pos == [i \in 1..n |-> Max2(0, node.total_regret[i])]
      total_pos_regret == SumFromTo(pos, 1, n)
      strat == [i \in 1..n |->
                  IF total_pos_regret > 0 THEN Q(node.total_regret[i], total_pos_regret)
                  ELSE Q(1, n)]
  IN [node EXCEPT !.strategy = strat,
                  !.total_prob = [i \in 1..n |-> QAdd(@[i], QMul(probability, strat[i]))]]

\* CFRNode.get_curr_strat: the node after the call; the value returned is its
\* strategy
get_curr_strat(node, probability) ==
  LET n == Len(node.moves)
      pos == [i \in 1..n |-> Max2(0, node.total_regret[i])]
      total_pos_regret == SumFromTo(pos, 1, n)
      strat == [i \in 1..n |->
                  IF total_pos_regret > 0 THEN Q(pos[i], total_pos_regret)
                  ELSE Q(1, n)]
  IN [node EXCEPT !.strategy = strat,
                  !.total_prob = [i \in 1..n |-> QAdd(@[i], QMul(probability, strat[i]))]]

\* a / b for fractions, b # 0
QDiv(a, b) == Q(a.n * b.d, a.d * b.n)

\* CFRNode.get_average_strat: the dictionary returned.  The loop after
\* "renormalize" evaluates average_strat[move] / normal_prob and drops the
\* quotient, so the pruned values are returned as they are.
get_average_strat(node) ==
  LET n == Len(node.moves)
      total_prob == QSum(node.total_prob, n)
      average_strat == [i \in 1..n |->
                          IF QLess(Q(0, 1), total_prob)
                          THEN QDiv(node.total_prob[i], total_prob)
                          ELSE Q(1, n)]
  IN [i \in 1..n |->
        IF QLess(average_strat[i], Q(1, 1000)) THEN Q(0, 1) ELSE average_strat[i]]

\* the move lists a table entry is created with: possible_moves of a position
NodeMoveLists ==
  {ms \in {possible_moves(LiarsDiceIS(p[1], p[2], NoRoll, h, TRUE)) :
             p \in (1..MaxOwnDice) \X (1..MaxOppDice),
             h \in {<<>>} \cup {<<b>> : b \in AnyBids(MaxOwnDice + MaxOppDice)}} :
     Len(ms) \in 1..MaxNodeMoves}

\* the reach probabilities get_curr_strat is called with
ReachProbs == {Q(0, 1), Q(1, 1)}

InitNode ==
  /\ MatchIdle
  /\ LibIdle
  /\ MctsIdle
  /\ CfrIdle
  /\ cnode \in {CFRNode(ms) : ms \in NodeMoveLists}
  /\ ucall = [op |-> "CFRNode"]

\* cfr: total_regret[move] += probs[other] * probs[2] * (pay[move] - payoff),
\* for every move of the entry, after the get_curr_strat call of the visit.
\* payoff is the sum of curr_strat[move] * pay[move], so the increments
\* weighted by the current strategy add up to 0.
NodeAddRegret ==
  /\ ucall.op = "get_curr_strat"
  /\ \E delta \in [1..Len(cnode.moves) -> -1..1] :
       /\ QSum([i \in 1..Len(cnode.moves) |->
                  QMul(cnode.strategy[i], Q(delta[i], 1))],
               Len(cnode.moves)) = Q(0, 1)
       /\ \A i \in 1..Len(cnode.moves) :
            cnode.total_regret[i] + delta[i] \in (-MaxRegret)..MaxRegret
       /\ cnode' = [cnode EXCEPT !.total_regret =
                      [i \in 1..Len(cnode.moves) |-> @[i] + delta[i]]]
       /\ ucall' = [op |-> "add_regret"]
  /\ UNCHANGED <<libvars, mctsvars, cfrvars, matchvars>>

NodeGetCurrStrat ==
  /\ QLess(QSum(cnode.total_prob, Len(cnode.moves)), Q(MaxStratCalls, 1))
  /\ \E probability \in ReachProbs :
       /\ cnode' = get_curr_strat(cnode, probability)
       /\ ucall' = [op |-> "get_curr_strat", before |-> cnode,
                    probability |-> probability,
                    ret |-> get_curr_strat(cnode, probability).strategy]
  /\ UNCHANGED <<libvars, mctsvars, cfrvars, matchvars>>

NextNode ==
  \/ NodeAddRegret
  \/ NodeGetCurrStrat

SpecNode == InitNode /\ [][NextNode]_vars

----------------------------------------------------------------------------
(* Functions called on their own: each call is recorded in ucall with its   *)
(* arguments and its result.                                                *)

MaxOutcomeDice == 3

RECURSIVE factorial(_)
factorial(n) == IF n = 0 THEN 1 ELSE n * factorial(n - 1)

\* tuple(roll.count(i) for i in range(1, 7)) of one sequence of thrown dice
FaceCounts(roll) ==
  [i \in 1..NUM_FACES |-> Cardinality({k \in DOMAIN roll : roll[k] = i})]

\* variant: the factor factorial(n) is left out of the probability
generate_dice_outcomes_no_numerator(n) ==
  LET all_rolls == [1..n -> 1..NUM_FACES]
      outcomes == {FaceCounts(roll) : roll \in all_rolls}
  IN [outcome \in outcomes |->
        Q(1, factorial(outcome[1]) * factorial(outcome[2]) * factorial(outcome[3])
             * factorial(outcome[4]) * factorial(outcome[5]) * factorial(outcome[6])
             * Pow(NUM_FACES, n))]

\* the dice each player holds in the trees whose table keys are compared
MaxKeyDice == 1

\* a cumulative regret large enough for a move's average probability to fall
\* below the pruning threshold
LargeRegret == 1000

\* generate_dice_outcomes: the keys are the face counts of product(range(1, 7),
\* repeat=n), each with factorial(n) / (product of factorials) * (1/6)**n
generate_dice_outcomes(n) ==
  LET all_rolls == [1..n -> 1..NUM_FACES]
      outcomes == {FaceCounts(roll) : roll \in all_rolls}
  IN [outcome \in outcomes |->
        Q(factorial(n),
          factorial(outcome[1]) * factorial(outcome[2]) * factorial(outcome[3])
          * factorial(outcome[4]) * factorial(outcome[5]) * factorial(outcome[6])
          * Pow(NUM_FACES, n))]

MaxBeliefDice == 2

\* variant: the weight is raised on the bids of the player the roll does not belong to
bayesian_determinization_distribution_own_bids(player_two_num_dice, bid_history, root_player_one_turn) ==
  LET all_rolls == Rolls(player_two_num_dice)
      weights == [r \in all_rolls |-> bayesian_weight(r, bid_history, ~root_player_one_turn)]
      total == Cardinality(UNION {{<<r, k>> : k \in 1..weights[r]} : r \in all_rolls})
  IN [r \in all_rolls |-> Q(weights[r], total)]

\* bayesian_determinization_distribution: the probability of every roll of
\* generate_roll_tuples, its weight over the sum of the weights
bayesian_determinization_distribution(player_two_num_dice, bid_history, root_player_one_turn) ==
  LET all_rolls == Rolls(player_two_num_dice)
      weights == [r \in all_rolls |-> bayesian_weight(r, bid_history, root_player_one_turn)]
      total == Cardinality(UNION {{<<r, k>> : k \in 1..weights[r]} : r \in all_rolls})
  IN [r \in all_rolls |-> Q(weights[r], total)]

\* the bid histories of at most MaxHistLen bids, none a Challenge
BidHistories(total) ==
  UNION {[1..k -> (1..total) \X (2..NUM_FACES)] : k \in 0..MaxHistLen}

InitUnit ==
  /\ MatchIdle
  /\ LibIdle
  /\ MctsIdle
  /\ CfrIdle
  /\ cnode = [moves |-> <<>>]
  /\ ucall = [op |-> "start"]

CallGenerateDiceOutcomes ==
  /\ ucall.op = "start"
  /\ \E n \in 0..MaxOutcomeDice :
       ucall' = [op |-> "generate_dice_outcomes", n |-> n,
                 ret |-> generate_dice_outcomes(n)]
  /\ UNCHANGED <<cnode, libvars, mctsvars, cfrvars, matchvars>>

\* mcts: bayesian_determinization_distribution(info_set.player_two_num_dice,
\* info_set.bid_history, len(info_set.bid_history) % 2 == 0)
CallBayesian ==
  /\ ucall.op = "start"
  /\ \E n \in 1..MaxBeliefDice, h \in BidHistories(MaxBeliefDice + 1) :
       ucall' = [op |-> "bayesian_determinization_distribution",
                 player_two_num_dice |-> n, bid_history |-> h,
                 ret |-> bayesian_determinization_distribution(n, h, Len(h) % 2 = 0)]
  /\ UNCHANGED <<cnode, libvars, mctsvars, cfrvars, matchvars>>

\* epsilon_conservative(roll, info_set.__possible_moves__()) on a non-terminal
\* position; explore is the outcome of r < epsilon
CallEpsilonConservative ==
  /\ ucall.op = "start"
  /\ \E p1n \in 1..MaxOwnDice, p2n \in 1..MaxOppDice, n \in 1..MaxBeliefDice :
       \E h \in BidHistories(p1n + p2n), roll \in Rolls(n), explore \in BOOLEAN :
         LET self == LiarsDiceIS(p1n, p2n, NoRoll, h, TRUE)
             moves == possible_moves(self)
         IN \E move \in epsilon_conservative(roll, moves, explore) :
              ucall' = [op |-> "epsilon_conservative", roll |-> roll,
                        self |-> self, bid_history |-> h, moves |-> moves,
                        explore |-> explore, ret |-> move]
  /\ UNCHANGED <<cnode, libvars, mctsvars, cfrvars, matchvars>>

\* the bid histories of the decision nodes of a game tree: every bid is one
\* of the possible moves of the position before it
DecisionHistories(p1n, p2n) ==
  {h \in BidHistories(p1n + p2n) :
     \A i \in 1..Len(h) :
       h[i] \in SeqToSet(possible_moves(
                  LiarsDiceIS(p1n, p2n, NoRoll, SubSeq(h, 1, i - 1), TRUE)))}

\* cfr and monte_cfr at two decision nodes of one tree: the key each node
\* looks its table entry up with, computed from the mover's information set
CallInfoKey ==
  /\ ucall.op = "start"
  /\ \E p1n \in 1..MaxKeyDice, p2n \in 1..MaxKeyDice :
       \E ha \in DecisionHistories(p1n, p2n), hb \in DecisionHistories(p1n, p2n) :
         \E ra \in Rolls(p1n), rb \in Rolls(p1n) :
           LET a == LiarsDiceIS(p1n, p2n, ra, ha, TRUE)
               b == LiarsDiceIS(p1n, p2n, rb, hb, TRUE)
           IN ucall' = [op |-> "info_key", a |-> a, b |-> b,
                        key_a |-> info_key(a), key_b |-> info_key(b)]
  /\ UNCHANGED <<cnode, libvars, mctsvars, cfrvars, matchvars>>

\* get_cfr: my_node.get_average_strat() on an entry that was never visited,
\* or that get_curr_strat(1) visited with the cumulative regrets regs
CallGetAverageStrat ==
  /\ ucall.op = "start"
  /\ \E ms \in NodeMoveLists, visited \in BOOLEAN :
       \E regs \in [1..Len(ms) -> {0, 1, LargeRegret - 1, LargeRegret}] :
         LET node == IF visited
                     THEN get_curr_strat([CFRNode(ms) EXCEPT !.total_regret = regs],
                                         Q(1, 1))
                     ELSE CFRNode(ms)
         IN ucall' = [op |-> "get_average_strat", node |-> node,
                      ret |-> get_average_strat(node)]
  /\ UNCHANGED <<cnode, libvars, mctsvars, cfrvars, matchvars>>

NextUnit ==
  \/ CallGetAverageStrat
  \/ CallGenerateDiceOutcomes
  \/ CallBayesian
  \/ CallEpsilonConservative
  \/ CallInfoKey

SpecUnit == InitUnit /\ [][NextUnit]_vars

----------------------------------------------------------------------------
(* The matchup harness: test_agents.py.  One matchup(policy_a, policy_b,    *)
(* a_dice, b_dice, num_simulations, label, alternate) call.  A policy is a  *)
(* callable from an information set to a legal move; the two used here      *)
(* raise by the least legal bid, or challenge as soon as it is legal.       *)

MaxMatchDice == 2

MaxSimulations == 2

Policies == {"lowest", "challenge"}

\* next_action = policy(info_set)
PolicyMove(policy, info_set) ==
  IF policy = "challenge" /\ info_set.bid_history # <<>> THEN None
  ELSE possible_moves(info_set)[1]

NoPosition == LiarsDiceIS(0, 0, NoRoll, <<>>, TRUE)

\* the fields of a matchup call between two games
BetweenGames(m) ==
  [m EXCEPT !.pc = "loop", !.swapped = FALSE,
            !.counts_one = NoRoll, !.counts_two = NoRoll,
            !.current_position_a = NoPosition, !.current_position_b = NoPosition,
            !.mover_a = TRUE]

InitMatchup ==
  /\ LibIdle
  /\ MctsIdle
  /\ CfrIdle
  /\ UnitIdle
  /\ \E policy_a \in Policies, policy_b \in Policies, alternate \in BOOLEAN :
       \E a_dice \in 1..MaxMatchDice, b_dice \in 1..MaxMatchDice :
         \E num_simulations \in 1..MaxSimulations :
           /\ a_dice + b_dice <= MaxMatchDice + 1
           /\ match = BetweenGames(
                [pc |-> "loop", policy_a |-> policy_a, policy_b |-> policy_b,
                 a_dice |-> a_dice, b_dice |-> b_dice,
                 num_simulations |-> num_simulations, alternate |-> alternate,
                 i |-> 0, policy_a_total_score |-> 0, printed |-> <<0, 0>>,
                 swapped |-> FALSE, counts_one |-> NoRoll, counts_two |-> NoRoll,
                 current_position_a |-> NoPosition,
                 current_position_b |-> NoPosition, mover_a |-> TRUE])

\* matchup, one pass of the loop: simulate_game(policy_b, policy_a, a_dice,
\* b_dice) when alternate and i is odd, simulate_game(policy_a, policy_b,
\* a_dice, b_dice) otherwise; simulate_game rolls a_dice dice for the policy
\* it was given first and b_dice dice for the other
MatchupGame ==
  /\ match.pc = "loop"
  /\ match.i < match.num_simulations
  /\ \E counts_one \in Rolls(match.a_dice), counts_two \in Rolls(match.b_dice) :
       match' = [match EXCEPT
                   !.pc = "game",
                   !.swapped = match.alternate /\ match.i % 2 = 1,
                   !.counts_one = counts_one,
                   !.counts_two = counts_two,
                   !.current_position_a =
                      LiarsDiceIS(match.a_dice, match.b_dice, counts_one, <<>>, TRUE),
                   !.current_position_b =
                      LiarsDiceIS(match.b_dice, match.a_dice, counts_two, <<>>, FALSE),
                   !.mover_a = TRUE]
  /\ UNCHANGED <<libvars, mctsvars, cfrvars, unitvars>>

\* the policy simulate_game was given first, and the other
FirstPolicy == IF match.swapped THEN match.policy_b ELSE match.policy_a

SecondPolicy == IF match.swapped THEN match.policy_a ELSE match.policy_b

\* simulate_game, one pass of the while loop
SimulateMove ==
  /\ match.pc = "game"
  /\ ~is_terminal(match.current_position_a)
  /\ LET next_action == IF match.mover_a
                        THEN PolicyMove(FirstPolicy, match.current_position_a)
                        ELSE PolicyMove(SecondPolicy, match.current_position_b)
     IN match' = [match EXCEPT
                    !.current_position_a = successor(@, next_action),
                    !.current_position_b = successor(@, next_action),
                    !.mover_a = ~@]
  /\ UNCHANGED <<libvars, mctsvars, cfrvars, unitvars>>

\* simulate_game returns the score; matchup adds max(score, 0), or
\* 1 - max(score, 0) for a game in which the policies were swapped
SimulateReturn ==
  /\ match.pc = "game"
  /\ is_terminal(match.current_position_a)
  /\ LET h == match.current_position_a.bid_history
         game_score == score(match.counts_one, match.counts_two, h, Len(h) % 2 = 0)
         won == IF match.swapped THEN 1 - Max2(game_score, 0) ELSE Max2(game_score, 0)
     IN match' = BetweenGames([match EXCEPT
                                 !.i = @ + 1,
                                 !.policy_a_total_score = @ + won])
  /\ UNCHANGED <<libvars, mctsvars, cfrvars, unitvars>>

\* print(label, policy_a_total_score/num_simulations): the quotient, as the
\* pair of its numerator and denominator
MatchupPrint ==
  /\ match.pc = "loop"
  /\ match.i = match.num_simulations
  /\ match' = [match EXCEPT !.pc = "done",
                            !.printed = <<match.policy_a_total_score,
                                          match.num_simulations>>]
  /\ UNCHANGED <<libvars, mctsvars, cfrvars, unitvars>>

NextMatchup ==
  \/ MatchupGame
  \/ SimulateMove
  \/ SimulateReturn
  \/ MatchupPrint

SpecMatchup == InitMatchup /\ [][NextMatchup]_vars

----------------------------------------------------------------------------

(* Properties of the game abstraction *)

BidLess(a, b) == a[1] < b[1] \/ (a[1] = b[1] /\ a[2] < b[2])

\* the set the move generator is specified to return
LegalMoves(h, total) ==
  IF Len(h) = 0
  THEN (1..total) \X (2..NUM_FACES)
  ELSE LET q0 == h[Len(h)][1]
           f0 == h[Len(h)][2]
       IN {<<q0, f>> : f \in (f0 + 1)..NUM_FACES}
          \cup (((q0 + 1)..total) \X (2..NUM_FACES))
          \cup {None}

\* C1: on a non-terminal position possible_moves returns, each move once,
\* every bid up to the cap own+opp when no bid was made (and no Challenge),
\* else the same-quantity bids of a higher face, the higher-quantity bids up
\* to the cap, and Challenge; Challenge is returned iff a bid exists.
C1_PossibleMovesExact ==
  (call.op = "possible_moves" /\ ~is_terminal(call.self)) =>
    LET h == call.self.bid_history
        expected == LegalMoves(h, Total(call.self))
    IN /\ SeqToSet(call.ret) = expected
       /\ Len(call.ret) = Cardinality(expected)
       /\ (None \in SeqToSet(call.ret)) <=> (Len(h) > 0)

C1_Witness ==
  /\ call.op = "possible_moves"
  /\ Len(call.self.bid_history) = 1
  /\ call.self.bid_history[1] = <<2, 5>>
  /\ Total(call.self) = 3
  /\ call.ret = << <<2, 6>>, <<3, 2>>, <<3, 3>>, <<3, 4>>, <<3, 5>>, <<3, 6>>, None >>

\* C2: along play by legal moves from an empty history, bid_history is a
\* strictly increasing sequence of bids, optionally followed by one Challenge
\* as its last element, and a position whose history ends in Challenge has no
\* moves.
C2_HistoryIncreasing ==
  LET h == heap[info.bid_history]
      n == IF is_terminal(Deref(info)) THEN Len(h) - 1 ELSE Len(h)
  IN /\ \A i \in 1..n : h[i] \in (1..Total(info)) \X (2..NUM_FACES)
     /\ \A i \in 1..(n - 1) : BidLess(h[i], h[i + 1])
     /\ Len(h) \in {n, n + 1}
     /\ (Len(h) > 0 /\ h[Len(h)] = None) => possible_moves(Deref(info)) = <<>>

C2_Witness ==
  /\ is_terminal(Deref(info))
  /\ Len(heap[info.bid_history]) = 4
  /\ heap[info.bid_history][2][1] = heap[info.bid_history][1][1]
  /\ heap[info.bid_history][3][1] > heap[info.bid_history][2][1]

\* C3: for a history ending in Challenge after the bid (q,f), score counts
\* matchCount = own[f] + own[1] + opp[f] + opp[1] and returns +1 when
\* (matchCount >= q) equals ownerMadeLastBid, -1 otherwise.
C3_ScoreOfChallenge ==
  (call.op = "score" /\ is_terminal([bid_history |-> call.history])) =>
    LET bid == call.history[Len(call.history) - 1]
        matchCount == call.own[bid[2]] + call.own[1] + call.opp[bid[2]] + call.opp[1]
    IN call.ret = IF (matchCount >= bid[1]) = call.bidder THEN 1 ELSE -1

C3_Witness ==
  /\ call.op = "score"
  /\ call.history = << <<3, 5>>, None >>
  /\ call.own = <<0, 0, 0, 0, 2, 0>>
  /\ call.opp = <<1, 0, 0, 0, 0, 0>>
  /\ call.bidder
  /\ call.ret = 1

\* C4: successor returns a new object whose history is info's with the move
\* appended, whose turn is negated and whose roll and dice counts are info's;
\* info and its history list are unchanged, also when that list is the
\* shared default history of initial_info_set.
C4_SuccessorFrame ==
  /\ heap[0] = <<>>
  /\ call.op = "successor" =>
       LET new == Deref(call.ret)
           old == call.before
       IN /\ new.bid_history = Append(old.bid_history, call.move)
          /\ new.player_one_turn = ~old.player_one_turn
          /\ new.player_one_roll = old.player_one_roll
          /\ new.player_one_num_dice = old.player_one_num_dice
          /\ new.player_two_num_dice = old.player_two_num_dice
          /\ call.ret.bid_history # call.self.bid_history
          /\ Deref(call.self) = old

C4_Witness ==
  /\ call.op = "successor"
  /\ call.self.bid_history = 0
  /\ call.move = <<1, 3>>
  /\ heap[call.ret.bid_history] = << <<1, 3>> >>

\* C5: for every position and every move m, the successor by m is terminal
\* iff m is Challenge.
C5_TerminalIffChallenge ==
  call.op = "successor" => (is_terminal(Deref(call.ret)) <=> call.move = None)

C5_Witness ==
  /\ call.op = "successor"
  /\ is_terminal(call.before)
  /\ call.move # None
  /\ ~is_terminal(Deref(call.ret))

\* C6: score is anti-symmetric: swapping the two rolls and negating the flag
\* negates the result, for every bid history.
C6_ScoreAntiSymmetric ==
  call.op = "score" => call.ret = -call.swapped

C6_Witness ==
  /\ call.op = "score"
  /\ call.history = << <<2, 4>>, None >>
  /\ call.own = <<0, 0, 0, 2, 0, 0>>
  /\ call.opp = <<0, 1, 0, 0, 0, 0>>
  /\ ~call.bidder
  /\ call.ret = -1
  /\ call.swapped = 1

----------------------------------------------------------------------------
(* Properties of the search engines and the rule-based agent *)

EndsInChallenge(h) == Len(h) > 0 /\ h[Len(h)] = None

\* C7: for a non-terminal root on the owner's turn, the move mcts returns is
\* a member of possibleMoves(root), after any number of completed traversals
\* including zero.
C7_MctsReturnsLegalMove ==
  mpc = "returned" =>
    /\ ~EndsInChallenge(root.bid_history)
    /\ root.player_one_turn
    /\ result \in LegalMoves(root.bid_history, Total(root))

C7_Witness ==
  /\ mpc = "returned"
  /\ traversals = 2
  /\ root.bid_history = <<>>
  /\ result = <<2, 4>>

\* C8: mcts called with a root whose history ends in Challenge raises before
\* any traversal is run and never returns a move.
C8_TerminalRootRaises ==
  (EndsInChallenge(root.bid_history) /\ mpc # "start") =>
    /\ mpc = "raised"
    /\ traversals = 0
    /\ node_memo = <<>>
    /\ stack = <<>>
    /\ result = None

C8_Witness ==
  /\ mpc = "raised"
  /\ root.bid_history = << <<1, 4>>, None >>

\* bids within the cap, strictly increasing: a history built by legal moves
LegallyBuilt(h, total) ==
  /\ \A i \in 1..Len(h) : h[i] \in (1..total) \X (2..NUM_FACES)
  /\ \A i \in 1..(Len(h) - 1) : BidLess(h[i], h[i + 1])

\* C9: for every non-terminal position with a legally built history,
\* find_heuristic_move returns Challenge or a bid with face in 2..6, and the
\* move is a member of possibleMoves(position).
C9_HeuristicReturnsLegalMove ==
  (call.op = "find_heuristic_move"
     /\ LegallyBuilt(call.self.bid_history, Total(call.self))
     /\ SumRoll(call.self.player_one_roll) = call.self.player_one_num_dice) =>
    /\ call.ret = None \/ call.ret[2] \in 2..NUM_FACES
    /\ call.ret \in LegalMoves(call.self.bid_history, Total(call.self))

\* C10: a get_cfr call on a non-terminal root that ran one or more
\* iterations ends by returning a move, and that move (one the average
\* strategy of the root's entry gives non-zero probability) is a member of
\* possibleMoves(root): with no bids, a legal opening bid and not Challenge.
C10_CfrReturnsLegalMove ==
  (cpc \in {"returned", "raised"}
     /\ ~is_terminal(cfr_root)
     /\ time_limit >= 1) =>
    /\ cpc = "returned"
    /\ cfr_result.move \in LegalMoves(cfr_root.bid_history, Total(cfr_root))

----------------------------------------------------------------------------
(* Move generation bound, regret matching, outcome distributions *)

\* the quantity of the last bid of a history, 0 when no bid was made
LastQuantity(h) == IF Len(h) = 0 THEN 0 ELSE h[Len(h)][1]

\* C11 as stated: on a non-terminal position possible_moves contains every
\* bid (q, f) with q0 < q <= 2 * (own + opp) and 2 <= f <= 6.
C11_HigherQuantityUpToTwiceTotal ==
  (call.op = "possible_moves" /\ ~is_terminal(call.self)) =>
    \A q \in (LastQuantity(call.self.bid_history) + 1)..(2 * Total(call.self)),
       f \in 2..NUM_FACES :
      <<q, f>> \in SeqToSet(call.ret)

\* C11 amended: on a non-terminal position possible_moves contains every bid
\* (q, f) with q0 < q <= own + opp and 2 <= f <= 6, and no bid of a quantity
\* above own + opp.
C11_HigherQuantityUpToTotal ==
  (call.op = "possible_moves" /\ ~is_terminal(call.self)) =>
    /\ \A q \in (LastQuantity(call.self.bid_history) + 1)..Total(call.self),
          f \in 2..NUM_FACES :
         <<q, f>> \in SeqToSet(call.ret)
    /\ \A i \in 1..Len(call.ret) :
         call.ret[i] # None /\ call.ret[i][1] > LastQuantity(call.self.bid_history)
           => call.ret[i][1] <= Total(call.self)

C11_Witness ==
  /\ call.op = "possible_moves"
  /\ call.self.bid_history = << <<1, 3>> >>
  /\ Total(call.self) = 3
  /\ <<3, 2>> \in SeqToSet(call.ret)
  /\ <<4, 2>> \notin SeqToSet(call.ret)

NatSumOver(f, S) == Cardinality(UNION {{<<x, k>> : k \in 1..f[x]} : x \in S})

\* the fractions f[x], x in S, have denominators dividing den and sum to 1
SumsToOne(f, S, den) ==
  /\ \A x \in S : f[x].d > 0 /\ den % f[x].d = 0
  /\ NatSumOver([x \in S |-> f[x].n * (den \div f[x].d)], S) = den

\* C13: the keys of generate_dice_outcomes(n) are exactly the 6-tuples of
\* non-negative integers summing to n, the probability of (c1..c6) is
\* n!/(c1!*...*c6!) * (1/6)^n, which is the share of the 6^n dice sequences
\* showing these counts, and the probabilities sum to 1.
C13_OutcomeDistribution ==
  ucall.op = "generate_dice_outcomes" =>
    LET n == ucall.n
        sequences(o) == {roll \in [1..n -> 1..NUM_FACES] : FaceCounts(roll) = o}
    IN /\ DOMAIN ucall.ret = Rolls(n)
       /\ \A o \in DOMAIN ucall.ret :
            ucall.ret[o] = Q(Cardinality(sequences(o)), Pow(NUM_FACES, n))
       /\ \A o \in DOMAIN ucall.ret : ucall.ret[o].n >= 0
       /\ SumsToOne(ucall.ret, DOMAIN ucall.ret, factorial(n) * Pow(NUM_FACES, n))

C13_Witness ==
  /\ ucall.op = "generate_dice_outcomes"
  /\ ucall.n = 3
  /\ Cardinality(DOMAIN ucall.ret) = 56
  /\ ucall.ret[<<1, 1, 0, 0, 1, 0>>] = Q(1, 36)

\* the number of opponent bids of history h that roll r supports; the owner
\* moves next, so the opponent made the last bid and every second one before
SupportedOpponentBids(r, h) ==
  Cardinality({i \in 1..Len(h) :
                 (Len(h) - i) % 2 = 0 /\ r[h[i][2]] + r[1] >= h[i][1]})

----------------------------------------------------------------------------
(* Properties of the MCTS traversal *)

\* C15: the reward of the simulation step is the score of the terminal
\* position the random playout reaches, +1 or -1.  The first traversal of a
\* call expands the root and simulates, so after it the root's total_reward
\* is that reward.
C15_SimulationRewardIsTerminalScore ==
  (mpc = "loop" /\ traversals = 1) =>
    node_memo[root.bid_history].total_reward \in {-1, 1}

\* visit_count and total_reward of the node stored under key k, 0 and 0 when
\* the map has no such node
StatsOf(memo, k) ==
  IF k \in DOMAIN memo THEN <<memo[k].visit_count, memo[k].total_reward>>
  ELSE <<0, 0>>

\* the step that completes a traversal
TraversalCompletes == mpc = "traverse" /\ mpc' = "loop"

\* the keys of the traversed path at the completing step: the frames of the
\* recursion and, when the last frame is expanded in this step, the child of
\* the edge selected
TraversedPath ==
  LET top == stack[Len(stack)]
  IN SeqToSet(stack)
     \cup (IF is_terminal(node_memo[top].info_set) \/ is_expanded(node_memo[top])
           THEN {}
           ELSE {node_memo'[top].edges[i].child :
                   i \in {j \in 1..Len(node_memo'[top].edges) :
                            node_memo'[top].edges[j].n = 1}})

\* C16: one traversal adds exactly 1 to visit_count and one and the same
\* reward to total_reward of every node on the traversed path and leaves the
\* statistics of every other node unchanged; root.visit_count equals the
\* number of completed traversals.
C16_BackpropagationFrame ==
  /\ [](mpc = "loop" => node_memo[root.bid_history].visit_count = traversals)
  /\ [][TraversalCompletes =>
          \E reward \in {-1, 0, 1} :
            \A k \in DOMAIN node_memo' :
              StatsOf(node_memo', k) =
                IF k \in TraversedPath
                THEN <<StatsOf(node_memo, k)[1] + 1, StatsOf(node_memo, k)[2] + reward>>
                ELSE StatsOf(node_memo, k)]_vars

C16_Witness ==
  /\ mpc = "loop"
  /\ traversals = 2
  /\ root.bid_history = <<>>
  /\ node_memo[<<>>].visit_count = 2
  /\ \E k \in DOMAIN node_memo :
       Len(k) = 3 /\ node_memo[k].visit_count = 1 /\ node_memo[k].total_reward = -1

\* a step keeps every node of the map: same key, same information set
NodesKept ==
  \A k \in DOMAIN node_memo :
    /\ k \in DOMAIN node_memo'
    /\ node_memo'[k].info_set = node_memo[k].info_set
    /\ node_memo'[k].visit_count >= node_memo[k].visit_count

\* C17: within one mcts call every node of the map is stored under its own
\* bid history, so no two nodes share one; every edge leads to the node
\* stored under the history extended by the edge's action; and a node once
\* stored is the node every later traversal uses, whatever roll was sampled:
\* it is never dropped or replaced and its visit_count never falls.
C17_NodesAggregatedByHistory ==
  /\ [](\A k \in DOMAIN node_memo :
          /\ node_memo[k].info_set.bid_history = k
          /\ \A i \in 1..Len(node_memo[k].edges) :
               /\ node_memo[k].edges[i].child = Append(k, node_memo[k].edges[i].action)
               /\ node_memo[k].edges[i].child \in DOMAIN node_memo)
  /\ [][(mpc \in {"loop", "traverse"}) => NodesKept]_vars

\* a node other than the root reached twice, by rolls that scored differently
C17_Witness ==
  /\ mpc = "loop"
  /\ traversals = 2
  /\ \E k \in DOMAIN node_memo :
       /\ k # root.bid_history
       /\ node_memo[k].visit_count = 2
       /\ node_memo[k].total_reward = 0

\* a step of traverse that selects an edge by UCB at the node on top
UcbStep ==
  /\ mpc = "traverse"
  /\ ~is_terminal(Top.info_set)
  /\ Top.info_set.player_one_turn
  /\ is_expanded(Top)
  /\ stack' # stack

\* the indexes of the edges of the node on top selected in this step
SelectedEdges ==
  LET top == stack[Len(stack)]
  IN {i \in 1..Len(node_memo[top].edges) :
        node_memo'[top].edges[i].n = node_memo[top].edges[i].n + 1}

\* the UCB1 value of edge i of the node on top: +infinity for an edge with
\* zero selections or a child with zero visits
UcbValue(i) ==
  ucb(Top.edges[i], node_memo[Top.edges[i].child], Top.visit_count)

\* the selection made in this step is the first edge of maximal UCB1 value
FirstMaximalSelected ==
  /\ Cardinality(SelectedEdges) = 1
  /\ \A i \in SelectedEdges :
       /\ stack' = Append(stack, Top.edges[i].child)
       /\ \A j \in 1..Len(Top.edges) : ~Gt(UcbValue(j), UcbValue(i))
       /\ \A j \in 1..(i - 1) : Gt(UcbValue(i), UcbValue(j))
       /\ \A j \in 1..Len(Top.edges) :
            (Top.edges[j].n = 0 \/ node_memo[Top.edges[j].child].visit_count = 0)
              => UcbValue(j) = PlusInf
       /\ Top.edges[i].n > 0 => \A j \in 1..Len(Top.edges) : Top.edges[j].n > 0

\* C18: at an expanded observer node selection picks the first edge, in
\* possibleMoves order, of maximal UCB1 value, an edge with zero selections or
\* a child with zero visits counting as +infinity; so no edge is selected a
\* second time while a sibling edge has zero selections.
C18_UcbSelectsFirstMaximal ==
  [][UcbStep => FirstMaximalSelected]_vars

\* both edges of a node were selected and then the second was preferred
C18_Witness ==
  /\ mpc = "loop"
  /\ \E k \in DOMAIN node_memo :
       /\ Len(node_memo[k].edges) = 2
       /\ node_memo[k].edges[1].n = 1
       /\ node_memo[k].edges[2].n = 2

\* the child of root edge i
RootChild(i) == node_memo[node_memo[root.bid_history].edges[i].child]

\* the average reward of root child i is below that of root child j (both visited)
AverageBelow(i, j) ==
  RootChild(i).total_reward * RootChild(j).visit_count
    < RootChild(j).total_reward * RootChild(i).visit_count

\* C19: when the budget ends mcts returns a legal move drawn at random if the
\* root was never expanded; otherwise the action of the first root edge, in
\* possibleMoves order, whose child has the highest total_reward/visit_count
\* among the children with at least one visit, never a child with no visit.
C19_ReturnsBestVisitedChild ==
  mpc = "returned" =>
    LET r == node_memo[root.bid_history]
        visited == {j \in 1..Len(r.edges) : RootChild(j).visit_count > 0}
    IN IF r.edges_none
       THEN /\ traversals = 0
            /\ result \in SeqToSet(possible_moves(root))
       ELSE \E i \in visited :
              /\ result = r.edges[i].action
              /\ \A j \in visited : ~AverageBelow(i, j)
              /\ \A j \in visited : j < i => AverageBelow(j, i)

\* the first edge's child was visited and a later edge had the better average
C19_Witness ==
  /\ mpc = "returned"
  /\ traversals >= 2
  /\ RootChild(1).visit_count > 0
  /\ \E i \in 2..Len(node_memo[root.bid_history].edges) :
       /\ result = node_memo[root.bid_history].edges[i].action
       /\ AverageBelow(1, i)

----------------------------------------------------------------------------
(* Properties of the epsilon-conservative policy *)

\* the bids among moves that the roll supports: face count plus wilds >= quantity
SupportedBids(roll, moves) ==
  {m \in SeqToSet(moves) \ {None} : roll[m[2]] + roll[1] >= m[1]}

\* C20: outside exploration epsilon_conservative returns a bid of the legal
\* moves that the roll supports whenever one exists, and Challenge exactly
\* when the roll supports no legal bid; in exploration it returns a member of
\* the legal moves.
C20_EpsilonConservativeChoice ==
  ucall.op = "epsilon_conservative" =>
    IF ucall.explore
    THEN ucall.ret \in SeqToSet(ucall.moves)
    ELSE /\ (ucall.ret = None) <=> (SupportedBids(ucall.roll, ucall.moves) = {})
         /\ ucall.ret # None => ucall.ret \in SupportedBids(ucall.roll, ucall.moves)

\* a bid supported only thanks to a wild die is returned
C20_Witness ==
  /\ ucall.op = "epsilon_conservative"
  /\ ~ucall.explore
  /\ ucall.roll = <<1, 0, 0, 1, 0, 0>>
  /\ ucall.bid_history = << <<1, 5>> >>
  /\ ucall.ret = <<2, 4>>

----------------------------------------------------------------------------
(* Properties of the CFR strategy table *)

\* C21: two decision positions use the same strategy-table entry (their keys
\* are equal) if and only if the mover's private roll is equal and the whole
\* bid history is equal; positions that differ in an earlier bid never share
\* an entry.
C21_TableKeyIsRollAndWholeHistory ==
  ucall.op = "info_key" =>
    ((ucall.key_a = ucall.key_b) <=>
       (/\ ucall.a.player_one_roll = ucall.b.player_one_roll
        /\ ucall.a.bid_history = ucall.b.bid_history))

RegretsKeptByGetCurrStrat ==
  (cnode.moves # <<>> /\ ucall'.op = "get_curr_strat") =>
    cnode'.total_regret = cnode.total_regret

\* what an entry stores that is never negative
NonNegativeStored ==
  cnode.moves # <<>> =>
    /\ ucall.op = "CFRNode" =>
         \A i \in 1..Len(cnode.moves) : cnode.total_regret[i] = 0
    /\ \A i \in 1..Len(cnode.moves) :
         /\ cnode.strategy[i].n >= 0
         /\ cnode.total_prob[i].n >= 0
         /\ (/\ ucall.op = "get_curr_strat"
             /\ cnode.total_regret[i] < 0
             /\ \E j \in 1..Len(cnode.moves) : cnode.total_regret[j] > 0) =>
              cnode.strategy[i] = Q(0, 1)

NormalizedCumulative(node, i) ==
  LET total == QSum(node.total_prob, Len(node.moves))
  IN IF QLess(Q(0, 1), total) THEN QDiv(node.total_prob[i], total)
     ELSE Q(1, Len(node.moves))

\* C23: in the distribution get_average_strat returns, every move whose
\* normalized cumulative probability is below 0.001 has probability 0, and
\* the other moves have their normalized probability divided by the mass that
\* remains, so that the distribution sums to 1 whenever a move survives.
C23_AverageStratPrunedAndRenormalized ==
  ucall.op = "get_average_strat" =>
    LET node == ucall.node
        n == Len(node.moves)
        kept == {i \in 1..n : ~QLess(NormalizedCumulative(node, i), Q(1, 1000))}
        mass == QSum([i \in 1..n |-> IF i \in kept THEN NormalizedCumulative(node, i)
                                     ELSE Q(0, 1)], n)
    IN /\ \A i \in (1..n) \ kept : ucall.ret[i] = Q(0, 1)
       /\ kept # {} =>
            /\ \A i \in kept : ucall.ret[i] = QDiv(NormalizedCumulative(node, i), mass)
            /\ QSum(ucall.ret, n) = Q(1, 1)

\* monte_cfr is at a decision node whose mover is info_sets[p]
AtMonteCfrDecision(p) ==
  /\ cpc = "monte_cfr"
  /\ ~(is_terminal(info_sets[1]) \/ is_terminal(info_sets[2]))
  /\ ~(is_chance(info_sets[1]) \/ is_chance(info_sets[2]))
  /\ p = IF info_sets[1].player_one_turn THEN 1 ELSE 2

\* the frame monte_cfr recurses with after the move m
RecursesInto(m) ==
  /\ cpc' = "monte_cfr"
  /\ info_sets' = <<successor(info_sets[1], m), successor(info_sets[2], m)>>

\* the cumulative regrets of the entries already in the table stay as they are
RegretsUnchanged ==
  \A k \in DOMAIN info_map :
    k \in DOMAIN info_map' /\ info_map'[k].total_regret = info_map[k].total_regret

\* the visit of a decision node: the opponent's (info_sets[2]) continues in
\* the successor of one legal move and changes no regret; the querying
\* player's (info_sets[1]) continues in the successor of the first legal
\* move, the start of the loop over all of them
DecisionVisit ==
  /\ AtMonteCfrDecision(2) =>
       /\ \E m \in SeqToSet(possible_moves(info_sets[2])) : RecursesInto(m)
       /\ RegretsUnchanged
  /\ AtMonteCfrDecision(1) =>
       RecursesInto(possible_moves(info_sets[1])[1])

\* C24: in monte_cfr a visit to a decision node of the opponent recurses into
\* exactly one successor, for a move sampled from the node's strategy, and
\* changes no cumulative regret; at a decision node of the querying player
\* every legal move is recursed into.
C24_OpponentNodesSampled == [][DecisionVisit]_vars

\* +1 if the last bid of the terminal pair is met by both rolls together
\* (its face plus the wilds), otherwise -1
LastBidValue(pair) ==
  LET h == pair[1].bid_history
      bid == h[Len(h) - 1]
      count == pair[1].player_one_roll[bid[2]] + pair[2].player_one_roll[bid[2]]
               + pair[1].player_one_roll[1] + pair[2].player_one_roll[1]
  IN IF count >= bid[1] THEN 1 ELSE -1

\* the frame of cfr on a pair in which both players have rolled: a terminal
\* pair returns LastBidValue, the value for the player to move there (the
\* last bidder); a decision node goes on into a successor, which is how the
\* challenger's node comes to receive the negated value
TerminalValueReturned ==
  (cpc = "cfr" /\ ~(is_chance(info_sets[1]) \/ is_chance(info_sets[2]))) =>
    IF is_terminal(info_sets[1]) \/ is_terminal(info_sets[2])
    THEN cfr_result' = [kind |-> "value", value |-> LastBidValue(info_sets)]
    ELSE /\ cpc' = "cfr"
         /\ \E m \in SeqToSet(possible_moves(info_sets[1])) :
              info_sets' = <<successor(info_sets[1], m), successor(info_sets[2], m)>>

\* C25: at a terminal pair cfr returns the score for the player to move
\* there, the last bidder, whoever challenged: +1 if the count of the last
\* bid's face plus wilds over both rolls is at least the bid's quantity,
\* otherwise -1; the challenging parent node receives the negated value.
C25_TerminalScoreForMover == [][TerminalValueReturned]_vars

----------------------------------------------------------------------------
(* Properties of the length of a play *)

\* the bids of the history of the position played, a trailing Challenge
\* not counted
BidsPlayed ==
  LET h == heap[info.bid_history]
  IN IF is_terminal(Deref(info)) THEN Len(h) - 1 ELSE Len(h)

\* C26 as stated: along a play of legal moves from an empty history the
\* number of bids never exceeds 2 * (ownDiceCount + opponentDiceCount).
C26_BidsAtMostTwiceTotal ==
  BidsPlayed <= 2 * Total(info)

\* C26 (amended): along a play of legal moves from an empty history the
\* number of bids never exceeds 5 * (ownDiceCount + opponentDiceCount), one
\* bid per quantity 1..total and face 2..6.
C26_BidsAtMostFiveTimesTotal ==
  BidsPlayed <= (NUM_FACES - 1) * Total(info)

\* the longest play, still open: every bid was made
C26_Witness ==
  /\ ~is_terminal(Deref(info))
  /\ BidsPlayed = (NUM_FACES - 1) * Total(info)
  /\ BidsPlayed > 2 * Total(info)

\* the position played leaves Challenge as the only move once the highest
\* bid (total, 6) is made, and is never longer than all bids and a Challenge
PlayBounded ==
  LET h == heap[info.bid_history]
  IN /\ Len(h) <= (NUM_FACES - 1) * Total(info) + 1
     /\ (Len(h) > 0 /\ h[Len(h)] = <<Total(info), NUM_FACES>>) =>
          possible_moves(Deref(info)) = <<None>>
     /\ ~is_terminal(Deref(info)) => possible_moves(Deref(info)) # <<>>

\* C27: every play terminates: applying moves of possibleMoves over and over
\* reaches a terminal position after at most 5 * total bids and one
\* Challenge, a position whose last bid is (total, 6) having Challenge as
\* its only move.
C27_PlayTerminates ==
  []PlayBounded /\ <>is_terminal(Deref(info))

\* the longest play, ended by the Challenge
C27_Witness ==
  /\ is_terminal(Deref(info))
  /\ Len(heap[info.bid_history]) = (NUM_FACES - 1) * Total(info) + 1

----------------------------------------------------------------------------
(* Properties of the MCTS counters *)

\* the keys of the observer's nodes that have been expanded
ExpandedObserverNodes ==
  {k \in DOMAIN node_memo :
     node_memo[k].info_set.player_one_turn /\ ~node_memo[k].edges_none}

\* the selection counts of the edges of a node, added up
SelectionCount(node) ==
  SumFromTo([i \in 1..Len(node.edges) |-> node.edges[i].n], 1, Len(node.edges))

\* C28: between traversals of one mcts call, for every expanded observer node
\* each edge's selection count n equals its child's visit_count and the
\* node's visit_count is the sum of its edges' selection counts, so that an
\* expanded node has visit_count >= 1; and whenever UCB is evaluated at a
\* node during a traversal, the node's visit_count is not zero.
C28_EdgeCountsMatchVisits ==
  /\ mpc \in {"loop", "returned"} =>
       \A k \in ExpandedObserverNodes :
         /\ \A i \in 1..Len(node_memo[k].edges) :
              node_memo[k].edges[i].n = node_memo[node_memo[k].edges[i].child].visit_count
         /\ node_memo[k].visit_count = SelectionCount(node_memo[k])
         /\ node_memo[k].visit_count >= 1
  /\ (/\ mpc = "traverse"
      /\ ~is_terminal(Top.info_set)
      /\ Top.info_set.player_one_turn
      /\ is_expanded(Top)) => Top.visit_count >= 1

\* after some traversals an expanded node below the root has been selected
\* from again, and two of the root's edges have been selected
C28_Witness ==
  /\ mpc = "loop"
  /\ \E k \in ExpandedObserverNodes :
       /\ k # root.bid_history
       /\ node_memo[k].visit_count >= 2
  /\ \E i, j \in 1..Len(node_memo[root.bid_history].edges) :
       /\ i # j
       /\ node_memo[root.bid_history].edges[i].n >= 2
       /\ node_memo[root.bid_history].edges[j].n >= 1

----------------------------------------------------------------------------
(* Legality of the epsilon-conservative policy *)

\* C29: for a non-terminal position and a roll of at least one die,
\* epsilon_conservative(roll, possibleMoves(position)) is a member of
\* possibleMoves(position); on an empty bid history, where Challenge is not
\* legal, it does not return Challenge.
C29_EpsilonConservativeLegal ==
  (ucall.op = "epsilon_conservative" /\ SumRoll(ucall.roll) >= 1) =>
    /\ ucall.ret \in LegalMoves(ucall.bid_history,
                               ucall.self.player_one_num_dice
                                 + ucall.self.player_two_num_dice)
    /\ ucall.bid_history = <<>> => ucall.ret # None

\* a single wild die supports an opening bid on any face
C29_Witness ==
  /\ ucall.op = "epsilon_conservative"
  /\ ~ucall.explore
  /\ ucall.bid_history = <<>>
  /\ ucall.roll = <<1, 0, 0, 0, 0, 0>>
  /\ ucall.ret = <<1, 6>>

----------------------------------------------------------------------------
(* Properties of the matchup harness *)

\* the position the given policy plays from in the game being simulated
PositionOf(policy_is_a) ==
  IF policy_is_a = ~match.swapped THEN match.current_position_a
  ELSE match.current_position_b

\* in the game being simulated policy_a holds a_dice dice and policy_b
\* b_dice dice
DiceAsLabelled ==
  match.pc = "game" =>
    /\ PositionOf(TRUE).player_one_num_dice = match.a_dice
    /\ SumRoll(PositionOf(TRUE).player_one_roll) = match.a_dice
    /\ PositionOf(FALSE).player_one_num_dice = match.b_dice
    /\ SumRoll(PositionOf(FALSE).player_one_roll) = match.b_dice

\* policy_a won the finished game: the last bid is met and policy_a made it,
\* or it is not met and policy_b made it
PolicyAWon ==
  LET h == match.current_position_a.bid_history
      bid == h[Len(h) - 1]
      count == match.counts_one[bid[2]] + match.counts_one[1]
               + match.counts_two[bid[2]] + match.counts_two[1]
      first_mover_bid == (Len(h) - 1) % 2 = 1
      policy_a_bid == (first_mover_bid = ~match.swapped)
  IN (count >= bid[1]) = policy_a_bid

\* a finished game adds 1 to policy_a's total exactly when policy_a won it,
\* and the value printed is that total over the number of games
WinsCounted ==
  /\ (match.pc = "game" /\ match'.pc = "loop") =>
       match'.policy_a_total_score =
         match.policy_a_total_score + (IF PolicyAWon THEN 1 ELSE 0)
  /\ match'.pc = "done" =>
       match'.printed = <<match'.policy_a_total_score, match'.num_simulations>>

\* C30: in every game of a matchup policy_a plays holding a_dice dice and
\* policy_b holding b_dice dice; alternation changes only which policy moves
\* first, and the printed value is the fraction of games won by policy_a.
C30_MatchupDiceFollowPolicies ==
  []DiceAsLabelled /\ [][WinsCounted]_vars

====
